---- MODULE Spec2Model ----
(***************************************************************************)
(* Model of the resource manager of azure-kusto-ingest:                    *)
(*   resource_manager/cache.rs  Cached<T>, ThreadSafeCachedValue<T>        *)
(*   resource_manager/authorization_context.rs  AuthorizationContext       *)
(*   resource_manager/resource_uri.rs  ResourceUri::try_from               *)
(* Spec: one cache instance (one Arc<RwLock<Cached<Option<T>>>>) is shared *)
(* by a fixed set of callers, each of which runs ThreadSafeCachedValue::get*)
(* step by step: the steps are separated where the code awaits (lock       *)
(* acquisition, the fetch callback) or where another thread can interleave.*)
(* Time is a discrete monotonic clock (std::time::Instant).                *)
(* TokenSpec: the gets on one AuthorizationContext, one after the other,   *)
(* each answered by any query result of a bounded family.                  *)
(* UriSpec: ResourceUri::try_from applied to any URI of a bounded family.  *)
(* The variables of the components a specification is not about stay at   *)
(* rest in it.                                                             *)
(***************************************************************************)
EXTENDS Integers, FiniteSets, Sequences, TLC

\* ---------------------------------------------------------------- bounds
NumCallers == 2     \* get calls made on the one cache, each by a task of its own
MaxTime    == 2     \* the clock runs 0..MaxTime
MaxPeriod  == 1     \* refresh periods 0..MaxPeriod are tried

\* The values callbacks return are told apart by the order in which they were
\* returned: value k is the one the k-th successful callback produced.
Callers == 1..NumCallers
Values  == 1..(NumCallers + 1)
Periods == 0..MaxPeriod
None    == 0        \* Option::None (of the cached value); also "no writer"
NoTime  == 0 - 1    \* "never": before every instant of the clock

VARIABLES
    now,        \* Instant::now(), monotonic
    cache,      \* the Cached<Option<T>> behind the lock: inner, last_updated, refresh_period
    lock,       \* the RwLock: the set of read-guard holders, the write-guard holder
    pc,         \* each caller's position inside get
    result,     \* what each caller's get returned (or that its future was dropped)
    fetches,    \* how often the get of each caller started its callback
    hist,       \* per call, what was true when it started and what happened since
    seen,       \* per call, the entry as it was when the call began waiting for the write lock
    fetchStarted, \* the time the callback now running was started
    lastOutcome,  \* outcome of the most recently completed callback
    lastOk,       \* when the most recent successful callback completed, and its value
    token_cache,  \* AuthorizationContext: the Cached<Option<String>> of its token_cache
    response,     \* AuthorizationContext: what the management query of the last get answered
    authResult,   \* AuthorizationContext: what the last get returned
    queries,      \* AuthorizationContext: how often the last get executed the management query
    tokenBefore,  \* AuthorizationContext: token_cache as the last get found it
    uri,          \* ResourceUri: the parsed URL handed to try_from
    parsed,       \* ResourceUri: what try_from returned for it
    instances,    \* clones: the Arc<RwLock<Cached<..>>> allocations: entry and lock of each
    handles,      \* clones: the allocation each ThreadSafeCachedValue value points to
    hpc,          \* clones: where the get made through each value stands
    hres,         \* clones: what the get made through each value returned
    root,         \* clones: the value made by new() that each value was cloned from
    stored        \* clones: per value made by new(), the last successful fetch through it or a clone

cacheVars == <<cache, lock, pc, result, fetches, hist, seen, fetchStarted, lastOutcome, lastOk>>
authVars  == <<token_cache, response, authResult, queries, tokenBefore>>
uriVars   == <<uri, parsed>>
cloneVars == <<instances, handles, hpc, hres, root, stored>>
vars == <<now, cacheVars, authVars, uriVars, cloneVars>>

\* ------------------------------------------------------------ results
NoResult  == [tag |-> "None", val |-> 0]
Cancelled == [tag |-> "Cancelled", val |-> 0]
Err       == [tag |-> "Err", val |-> 0]
Ok(v)     == [tag |-> "Ok", val |-> v]

\* ------------------------------------------------------------ Cached<T>
\* Cached::new: the value, stamped with the time of construction
CachedNew(inner, refresh_period, t) ==
    [inner |-> inner, last_updated |-> t, refresh_period |-> refresh_period]

\* Cached::get
CachedGet(cached) == cached.inner

\* Cached::is_expired at clock reading t: last_updated.elapsed() >= refresh_period
IsExpiredStrict(cached, t) == t - cached.last_updated > cached.refresh_period
IsExpired(cached, t) == t - cached.last_updated >= cached.refresh_period

\* Cached::update at clock reading t
UpdateKeepsStamp(cached, inner, t) ==
    [cached EXCEPT !.inner = inner]
UpdateAtStart(cached, inner, t) ==
    [cached EXCEPT !.inner = inner,
                   !.last_updated = IF fetchStarted = NoTime THEN t ELSE fetchStarted]
Update(cached, inner, t) ==
    [cached EXCEPT !.inner = inner, !.last_updated = t]

\* the test both cache look-ups of get make: `if !cache.is_expired() { if let Some(..) = cache.get()`
HitIgnoringOption(cached, t) == ~IsExpired(cached, t)
HitIgnoringExpiry(cached, t) == CachedGet(cached) # None
Hit(cached, t) == ~IsExpired(cached, t) /\ CachedGet(cached) # None

\* the second look-up, made once the write guard is held
NoRecheck(cached, t) == FALSE
Recheck(cached, t) == Hit(cached, t)

\* --------------------------------------------------------------- RwLock
Unlocked == [readers |-> {}, writer |-> None]

CanReadAlways(l) == TRUE
CanRead(l) == l.writer = None

CanWriteIgnoringWriter(l) == l.readers = {}
CanWriteIgnoringReaders(l) == l.writer = None
CanWrite(l) == l.readers = {} /\ l.writer = None

\* dropping c's guard (end of scope, return, `?`, or the future being dropped)
LeakGuard(l, c) == l
KeepReadGuard(l, c) == [l EXCEPT !.writer = IF @ = c THEN None ELSE @]
DropGuard(l, c) ==
    [readers |-> l.readers \ {c}, writer |-> IF l.writer = c THEN None ELSE l.writer]

\* what the entry is after the callback failed: `callback.await?` returns before update
EvictOnErr(cached) == [cached EXCEPT !.inner = None]
BackoffOnErr(cached) == [cached EXCEPT !.last_updated = now]
ClearOnErr(cached) == [cached EXCEPT !.inner = <<>>]
AfterErr(cached) == cached

\* ------------------------------------------------------------ bookkeeping
NoHist == [stale |-> FALSE, hadValue |-> FALSE, afterFail |-> FALSE, alone |-> FALSE,
           refreshed |-> FALSE, slow |-> FALSE, oldVal |-> None]
NoSeen == [val |-> None, at |-> NoTime, recheck |-> "none"]

Active(c) == pc[c] \notin {"idle", "done"}

\* a call of c ends: its guard is dropped and its outcome recorded
Finish(c, r) ==
    /\ pc' = [pc EXCEPT ![c] = "done"]
    /\ result' = [result EXCEPT ![c] = r]
    /\ lock' = DropGuard(lock, c)

\* ------------------------------------------------- AuthorizationContext
\* resource_manager/authorization_context.rs: the identity token is fetched by a
\* management query, validated, and kept in a ThreadSafeCachedValue<String>.
MaxTables == 2      \* a query result holds 0..MaxTables tables
MaxCols   == 2      \* a table has 0..MaxCols columns, a row 0..MaxCols cells
MaxRows   == 2      \* a table has 0..MaxRows rows

\* Option<T> of the values below: None is the empty sequence, Some(x) is <<x>>
Absent    == <<>>
Some(x)   == <<x>>
IsSome(o) == Len(o) = 1
Unwrap(o) == o[1]

\* the strings a cell may hold: empty, blank, and not blank
Strings == {<<>>, <<" ">>, <<" ", " ">>, <<"a">>, <<" ", "a">>, <<"a", " ">>}

\* char::is_whitespace
IsWhitespace(ch) == ch = " "

\* token.chars().all(char::is_whitespace): true of the empty string
OnlyEmpty(str) == Len(str) = 0
AllWhitespace(str) == \A i \in 1..Len(str) : IsWhitespace(str[i])

\* serde_json::Value cells of a row
StringCell(str) == [json |-> "String", text |-> str]
NumberCell == [json |-> "Number", text |-> <<"7">>]
NullCell   == [json |-> "Null", text |-> <<>>]
NoCell     == [json |-> "None", text |-> <<>>]
Cells == {StringCell(str) : str \in Strings} \cup {NumberCell, NullCell}

\* Value::as_str
AsStr(cell) == IF cell.json = "String" THEN Some(cell.text) ELSE Absent

AUTHORIZATION_CONTEXT == "AuthorizationContext"
ColumnNames == {AUTHORIZATION_CONTEXT, "Other"}
ColumnLists == UNION {[1..n -> ColumnNames] : n \in 0..MaxCols}

\* a row: cell c at one place, NullCell at the others
RowShapes ==
    {<<>>} \cup {[i \in 1..k |-> IF i = p THEN c ELSE NullCell] :
                    k \in 1..MaxCols, p \in 1..MaxCols, c \in Cells}

\* a table: its columns, and some number of equal rows
Tables ==
    {[columns |-> cols, rows |-> [i \in 1..m |-> row]] :
        cols \in ColumnLists, m \in 0..MaxRows, row \in RowShapes}

\* what execute_command answers: an error, or a result of some number of equal tables
NoResponse  == [status |-> "None", tables |-> <<>>]
QueryFailed == [status |-> "Err", tables |-> <<>>]
Responses ==
    {QueryFailed} \cup {[status |-> "Ok", tables |-> [i \in 1..n |-> table]] :
                          n \in 0..MaxTables, table \in Tables}

\* Result<String, KustoIdentityTokenError>
AuthErr(kind, count, value) == [tag |-> "Err", kind |-> kind, count |-> count, value |-> value]
NoAuthResult           == [tag |-> "None", kind |-> "None", count |-> 0, value |-> NoCell]
KustoError             == AuthErr("KustoError", 0, NoCell)
ExpectedOneTable(n)    == AuthErr("ExpectedOneTable", n, NoCell)
ColumnNotFound         == AuthErr("ColumnNotFound", 0, NoCell)
ExpectedOneRow(n)      == AuthErr("ExpectedOneRow", n, NoCell)
InvalidJSONResponse(v) == AuthErr("InvalidJSONResponse", 0, v)
EmptyToken             == AuthErr("EmptyToken", 0, NoCell)
TokenOk(token)         == [tag |-> "Ok", kind |-> "Token", count |-> 0, value |-> StringCell(token)]

\* utils::get_column_index: the position of the first column of that name
\* (positions count from 1 here, from 0 in the code)
get_column_index(table, name) ==
    LET at == {i \in 1..Len(table.columns) : table.columns[i] = name}
    IN  IF at = {} THEN Absent ELSE Some(CHOOSE i \in at : \A j \in at : i <= j)

\* row.get(index)
RowGet(row, index) == IF index <= Len(row) THEN Some(row[index]) ELSE Absent

\* the checks on the cell found: it is a string, and not blank
ValidateCell(cell) ==
    LET token == AsStr(cell)
    IN  IF ~IsSome(token) THEN InvalidJSONResponse(cell)
        ELSE IF AllWhitespace(Unwrap(token)) THEN EmptyToken
        ELSE TokenOk(Unwrap(token))

\* the checks on the one table: the column, then the one row, then the cell
ValidateTableRowsFirst(table) ==
    LET index == get_column_index(table, AUTHORIZATION_CONTEXT)
    IN  IF Len(table.rows) # 1 THEN ExpectedOneRow(Len(table.rows))
        ELSE IF ~IsSome(index) THEN ColumnNotFound
        ELSE IF ~IsSome(RowGet(table.rows[1], Unwrap(index))) THEN ColumnNotFound
        ELSE ValidateCell(Unwrap(RowGet(table.rows[1], Unwrap(index))))
ValidateTable(table) ==
    LET index == get_column_index(table, AUTHORIZATION_CONTEXT)
    IN  IF ~IsSome(index) THEN ColumnNotFound
        ELSE IF Len(table.rows) # 1 THEN ExpectedOneRow(Len(table.rows))
        ELSE IF ~IsSome(RowGet(table.rows[1], Unwrap(index))) THEN ColumnNotFound
        ELSE ValidateCell(Unwrap(RowGet(table.rows[1], Unwrap(index))))

\* AuthorizationContext::query_kusto_identity_token, given what the one
\* execute_command call answered
query_kusto_identity_token(answer) ==
    IF answer.status = "Err" THEN KustoError
    ELSE IF Len(answer.tables) # 1 THEN ExpectedOneTable(Len(answer.tables))
    ELSE ValidateTable(answer.tables[1])

\* the look-up of ThreadSafeCachedValue::get on the token cache
TokenHit(cached, t) == ~IsExpired(cached, t) /\ IsSome(CachedGet(cached))

\* no get on the AuthorizationContext is in progress
AuthIdle ==
    /\ response = NoResponse
    /\ authResult = NoAuthResult
    /\ queries = 0

\* ----------------------------------------------------------- ResourceUri
\* resource_manager/resource_uri.rs: ResourceUri::try_from(&str).  A URI is
\* given by the parts the url crate finds in it: the scheme, the host and its
\* kind, the path and the query as written, and whether azure_storage accepts
\* the query as a SAS token.
MaxHostLen  == 3    \* domain names of 1..MaxHostLen characters
MaxPathLen  == 4    \* paths of 0..MaxPathLen characters
MaxQueryLen == 3    \* query strings of 0..MaxQueryLen characters

StringsOver(alphabet, lo, hi) == UNION {[1..n -> alphabet] : n \in lo..hi}

Schemes == {"https", "http"}

\* url::Host
Domain(text) == [kind |-> "Domain", text |-> text]
Ipv4         == [kind |-> "Ipv4", text |-> <<"1", ".", "1">>]
Ipv6         == [kind |-> "Ipv6", text |-> <<"[", ":", ":", "1", "]">>]
Hosts == {Domain(text) : text \in StringsOver({"a", "."}, 1, MaxHostLen)} \cup {Ipv4, Ipv6}

\* a path is empty or starts with "/"
Paths == {path \in StringsOver({"/", "c"}, 0, MaxPathLen) : path # <<>> => path[1] = "/"}

\* Option<&str>: no "?" in the URI, or what follows it
Queries == {Absent} \cup {Some(q) : q \in StringsOver({"k", "=", "&"}, 0, MaxQueryLen)}

\* the URI handed to try_from, as Url::parse and the SAS parser see it
Uri(scheme, host, path, query, sas_parses) ==
    [scheme |-> scheme, host |-> host, path |-> path, query |-> query,
     sas_parses |-> sas_parses]

\* Result<ResourceUri, ResourceUriError>
NoText == <<>>
UriErr(kind, scheme) ==
    [tag |-> "Err", kind |-> kind, scheme |-> scheme, service_uri |-> NoText,
     object_name |-> NoText, account_name |-> NoText, sas_token |-> <<>>]
InvalidScheme(scheme) == UriErr("InvalidScheme", scheme)
InvalidHost           == UriErr("InvalidHost", "")
MissingObjectName     == UriErr("MissingObjectName", "")
MissingSasToken       == UriErr("MissingSasToken", "")
MissingAccountName    == UriErr("MissingAccountName", "")
AzureError            == UriErr("AzureError", "")
ResourceUri(service_uri, object_name, account_name, sas_token) ==
    [tag |-> "Ok", kind |-> "ResourceUri", scheme |-> "", service_uri |-> service_uri,
     object_name |-> object_name, account_name |-> account_name, sas_token |-> sas_token]

\* Url::parse of an http(s) URI: an empty path reads as "/"
UrlParse(raw) == [raw EXCEPT !.path = IF raw.path = <<>> THEN <<"/">> ELSE raw.path]

\* the places of character ch in str
Places(str, ch) == {i \in 1..Len(str) : str[i] = ch}
First(places) == CHOOSE i \in places : \A j \in places : i <= j
Last(places)  == CHOOSE i \in places : \A j \in places : j <= i

\* str::split_once(ch): Some((before, after)) around the first ch
CutAt(str, i) == Some(<<SubSeq(str, 1, i - 1), SubSeq(str, i + 1, Len(str))>>)
rsplit_once(str, ch) ==
    IF Places(str, ch) = {} THEN Absent ELSE CutAt(str, Last(Places(str, ch)))
split_or_whole(str, ch) ==
    IF Places(str, ch) = {} THEN Some(<<str, NoText>>) ELSE CutAt(str, First(Places(str, ch)))
split_once(str, ch) ==
    IF Places(str, ch) = {} THEN Absent ELSE CutAt(str, First(Places(str, ch)))

\* str::split(ch): the pieces between the ch's, empty ones included
RECURSIVE Split(_, _)
Split(str, ch) ==
    IF Places(str, ch) = {} THEN <<str>>
    ELSE <<SubSeq(str, 1, First(Places(str, ch)) - 1)>>
            \o Split(SubSeq(str, First(Places(str, ch)) + 1, Len(str)), ch)

\* Url::path_segments: the path after its leading "/", split at "/"
path_segments(url) ==
    IF url.path # <<>> /\ url.path[1] = "/" THEN Some(Split(Tail(url.path), "/")) ELSE Absent

\* the two path_segments.next() of try_from: the first segment, if it is not
\* empty and no second one follows
FirstSegment(segments) ==
    IF Len(segments) >= 1 /\ segments[1] # <<>> THEN Some(segments[1]) ELSE Absent
OnlySegment(segments) ==
    IF Len(segments) = 1 /\ segments[1] # <<>> THEN Some(segments[1]) ELSE Absent

\* Url::query
NonEmptyQuery(url) == IF url.query = Some(<<>>) THEN Absent ELSE url.query
Query(url) == url.query

\* the name/value pairs of a query string (form_urlencoded::parse): the non-empty
\* pieces between "&", each cut at its first "="
Pair(piece) ==
    IF Places(piece, "=") = {} THEN <<piece, NoText>> ELSE Unwrap(split_once(piece, "="))
QueryPairs(q) ==
    LET pieces == SelectSeq(Split(q, "&"), LAMBDA piece : piece # <<>>)
    IN  [i \in 1..Len(pieces) |-> Pair(pieces[i])]

\* StorageCredentials::sas_token(query): the pairs, or an azure_core::Error
sas_token(url, q) == IF url.sas_parses THEN Some(QueryPairs(q)) ELSE Absent

\* the scheme and host tests
IsHttp(scheme)  == scheme \in {"https", "http"}
IsHttps(scheme) == scheme = "https"
HasHostText(host) == host.text # <<>>
IsDomain(host)    == host.kind = "Domain"

\* try_from past the host test, the account name being looked for last
AfterHostAccountLast(url) ==
    LET host_string == url.host.text
        names == split_once(host_string, ".")
        segments == path_segments(url)
    IN  IF ~IsSome(segments) THEN MissingObjectName
        ELSE IF ~IsSome(OnlySegment(Unwrap(segments))) THEN MissingObjectName
        ELSE IF ~IsSome(Query(url)) THEN MissingSasToken
        ELSE IF ~IsSome(sas_token(url, Unwrap(Query(url)))) THEN AzureError
        ELSE IF ~IsSome(names) THEN MissingAccountName
        ELSE ResourceUri(<<"https://">> \o host_string,
                         Unwrap(OnlySegment(Unwrap(segments))),
                         Unwrap(names)[1],
                         Unwrap(sas_token(url, Unwrap(Query(url)))))

\* try_from past the host test: service_uri, account name, object name, SAS token
AfterHost(url) ==
    LET host_string == url.host.text
        names == split_once(host_string, ".")
        segments == path_segments(url)
    IN  IF ~IsSome(names) THEN MissingAccountName
        ELSE IF ~IsSome(segments) THEN MissingObjectName
        ELSE IF ~IsSome(OnlySegment(Unwrap(segments))) THEN MissingObjectName
        ELSE IF ~IsSome(Query(url)) THEN MissingSasToken
        ELSE IF ~IsSome(sas_token(url, Unwrap(Query(url)))) THEN AzureError
        ELSE ResourceUri(<<"https://">> \o host_string,
                         Unwrap(OnlySegment(Unwrap(segments))),
                         Unwrap(names)[1],
                         Unwrap(sas_token(url, Unwrap(Query(url)))))

\* ResourceUri::try_from, of a URI that Url::parse accepts
try_from(raw) ==
    LET parsed_uri == UrlParse(raw)
    IN  IF ~IsHttps(parsed_uri.scheme) THEN InvalidScheme(parsed_uri.scheme)
        ELSE IF ~IsDomain(parsed_uri.host) THEN InvalidHost
        ELSE AfterHost(parsed_uri)

\* no URI is being parsed
NoUri == Uri("", Domain(NoText), NoText, Absent, FALSE)
NoParsed == [tag |-> "None", kind |-> "None", scheme |-> "", service_uri |-> NoText,
             object_name |-> NoText, account_name |-> NoText, sas_token |-> <<>>]
UriIdle ==
    /\ uri = NoUri
    /\ parsed = NoParsed

\* ------------------------------------------------- clones of the cache
\* ThreadSafeCachedValue derives Clone and holds an Arc: a clone points to the
\* allocation (entry and lock) of the value it was cloned from, new() makes an
\* allocation of its own.  Values are made one after the other, by new() or by
\* clone(), up to MaxHandles of them.
MaxHandles == 3
HandleIds == 1..MaxHandles

NoInstance == [cache |-> CachedNew(None, 0, 0), lock |-> Unlocked]
NoStored   == [val |-> None, at |-> NoTime]

\* no ThreadSafeCachedValue has been made
CloneIdle ==
    /\ instances = [i \in HandleIds |-> NoInstance]
    /\ handles = [h \in HandleIds |-> None]
    /\ hpc = [h \in HandleIds |-> "none"]
    /\ hres = [h \in HandleIds |-> NoResult]
    /\ root = [h \in HandleIds |-> None]
    /\ stored = [h \in HandleIds |-> NoStored]

\* --------------------------------------------------------------- Init
\* The cache right after ThreadSafeCachedValue::new, or (Warm) right after the
\* first successful get on it completed; the clock counts from that moment.
Fresh(p) ==
    /\ cache = CachedNew(None, p, 0)
    /\ lastOutcome = "None"
    /\ lastOk = [val |-> None, at |-> NoTime]

Warm(p) ==
    /\ cache = CachedNew(1, p, 0)
    /\ lastOutcome = "Ok"
    /\ lastOk = [val |-> 1, at |-> 0]

Init ==
    /\ now = 0
    /\ \E p \in Periods : Fresh(p) \/ Warm(p)
    /\ lock = Unlocked
    /\ pc = [c \in Callers |-> "idle"]
    /\ result = [c \in Callers |-> NoResult]
    /\ fetches = [c \in Callers |-> 0]
    /\ hist = [c \in Callers |-> NoHist]
    /\ seen = [c \in Callers |-> NoSeen]
    /\ fetchStarted = NoTime
    /\ token_cache = CachedNew(Absent, 0, 0)
    /\ tokenBefore = token_cache
    /\ AuthIdle
    /\ UriIdle
    /\ CloneIdle

\* ------------------------------------------------------------- actions
\* the clock advances
Tick ==
    /\ now < MaxTime
    /\ now' = now + 1
    /\ hist' = [c \in Callers |->
                 IF pc[c] = "fetching" THEN [hist[c] EXCEPT !.slow = TRUE] ELSE hist[c]]
    /\ UNCHANGED <<cache, lock, pc, result, fetches, seen, fetchStarted, lastOutcome, lastOk>>
    /\ UNCHANGED <<authVars, uriVars, cloneVars>>

\* a task calls get: it is first suspended on `self.cache.read().await`
GetStart(c) ==
    /\ pc[c] = "idle"
    /\ pc' = [pc EXCEPT ![c] = "read_wait"]
    /\ result' = [result EXCEPT ![c] = NoResult]
    /\ fetches' = [fetches EXCEPT ![c] = 0]
    /\ hist' = [d \in Callers |->
                 IF d = c
                 THEN [stale |-> lastOk.at = NoTime \/ now - lastOk.at >= cache.refresh_period,
                       hadValue |-> lastOk.at # NoTime,
                       afterFail |-> lastOutcome = "Err",
                       alone |-> \A e \in Callers \ {c} : ~Active(e),
                       refreshed |-> FALSE,
                       slow |-> FALSE,
                       oldVal |-> lastOk.val]
                 ELSE IF Active(d) THEN [hist[d] EXCEPT !.alone = FALSE] ELSE hist[d]]
    /\ seen' = [seen EXCEPT ![c] = NoSeen]
    /\ UNCHANGED <<now, cache, lock, fetchStarted, lastOutcome, lastOk>>
    /\ UNCHANGED <<authVars, uriVars, cloneVars>>

\* the read guard is granted
ReadLock(c) ==
    /\ pc[c] = "read_wait"
    /\ CanRead(lock)
    /\ lock' = [lock EXCEPT !.readers = @ \cup {c}]
    /\ pc' = [pc EXCEPT ![c] = "read_held"]
    /\ UNCHANGED <<now, cache, result, fetches, hist, seen, fetchStarted, lastOutcome, lastOk>>
    /\ UNCHANGED <<authVars, uriVars, cloneVars>>

\* the look-up under the read guard; the guard is dropped either way (return, or
\* the end of the block)
ReadCheck(c) ==
    /\ pc[c] = "read_held"
    /\ IF Hit(cache, now)
       THEN Finish(c, Ok(CachedGet(cache)))
       ELSE /\ pc' = [pc EXCEPT ![c] = "read_done"]
            /\ lock' = DropGuard(lock, c)
            /\ UNCHANGED result
    /\ UNCHANGED <<now, cache, fetches, hist, seen, fetchStarted, lastOutcome, lastOk>>
    /\ UNCHANGED <<authVars, uriVars, cloneVars>>

\* after a miss the call asks for the write guard and is suspended on
\* `self.cache.write().await`
WriteRequest(c) ==
    /\ pc[c] = "read_done"
    /\ pc' = [pc EXCEPT ![c] = "write_wait"]
    /\ seen' = [seen EXCEPT ![c] = [val |-> lastOk.val, at |-> lastOk.at, recheck |-> "none"]]
    /\ UNCHANGED <<now, cache, lock, result, fetches, hist, fetchStarted, lastOutcome, lastOk>>
    /\ UNCHANGED <<authVars, uriVars, cloneVars>>

\* the write guard is granted
WriteLock(c) ==
    /\ pc[c] = "write_wait"
    /\ CanWrite(lock)
    /\ lock' = [lock EXCEPT !.writer = c]
    /\ pc' = [pc EXCEPT ![c] = "write_held"]
    /\ UNCHANGED <<now, cache, result, fetches, hist, seen, fetchStarted, lastOutcome, lastOk>>
    /\ UNCHANGED <<authVars, uriVars, cloneVars>>

\* the second look-up, under the write guard; on a miss the callback starts
WriteCheck(c) ==
    /\ pc[c] = "write_held"
    /\ seen' = [seen EXCEPT ![c].recheck =
                  IF seen[c].at # NoTime /\ now - seen[c].at < cache.refresh_period
                  THEN "within" ELSE "late"]
    /\ IF Recheck(cache, now)
       THEN /\ Finish(c, Ok(CachedGet(cache)))
            /\ UNCHANGED <<fetches, fetchStarted>>
       ELSE /\ pc' = [pc EXCEPT ![c] = "fetching"]
            /\ fetches' = [fetches EXCEPT ![c] = @ + 1]
            /\ fetchStarted' = now
            /\ UNCHANGED <<result, lock>>
    /\ UNCHANGED <<now, cache, hist, lastOutcome, lastOk>>
    /\ UNCHANGED <<authVars, uriVars, cloneVars>>

\* the callback returns Ok(v): update, return
FetchOk(c) ==
    /\ pc[c] = "fetching"
    /\ LET v == lastOk.val + 1 IN
       /\ cache' = Update(cache, v, now)
       /\ Finish(c, Ok(v))
       /\ lastOk' = [val |-> v, at |-> now]
    /\ hist' = [d \in Callers |-> IF Active(d) THEN [hist[d] EXCEPT !.refreshed = TRUE] ELSE hist[d]]
    /\ lastOutcome' = "Ok"
    /\ fetchStarted' = NoTime
    /\ UNCHANGED <<now, fetches, seen>>
    /\ UNCHANGED <<authVars, uriVars, cloneVars>>

\* the callback returns Err: `?` returns it
FetchErr(c) ==
    /\ pc[c] = "fetching"
    /\ cache' = AfterErr(cache)
    /\ Finish(c, Err)
    /\ lastOutcome' = "Err"
    /\ fetchStarted' = NoTime
    /\ UNCHANGED <<now, fetches, hist, seen, lastOk>>
    /\ UNCHANGED <<authVars, uriVars, cloneVars>>

\* the future of get is dropped at one of its three await points
Cancel(c) ==
    /\ pc[c] \in {"read_wait", "write_wait", "fetching"}
    /\ Finish(c, Cancelled)
    /\ fetchStarted' = IF pc[c] = "fetching" THEN NoTime ELSE fetchStarted
    /\ UNCHANGED <<now, cache, fetches, hist, seen, lastOutcome, lastOk>>
    /\ UNCHANGED <<authVars, uriVars, cloneVars>>

Next ==
    \/ Tick
    \/ \E c \in Callers : GetStart(c)
    \/ \E c \in Callers : ReadLock(c)
    \/ \E c \in Callers : ReadCheck(c)
    \/ \E c \in Callers : WriteRequest(c)
    \/ \E c \in Callers : WriteLock(c)
    \/ \E c \in Callers : WriteCheck(c)
    \/ \E c \in Callers : FetchOk(c)
    \/ \E c \in Callers : FetchErr(c)
    \/ \E c \in Callers : Cancel(c)

Spec == Init /\ [][Next]_vars

TypeOK ==
    /\ now \in 0..MaxTime
    /\ cache.inner \in {None} \cup Values
    /\ cache.last_updated \in 0..MaxTime
    /\ lock.readers \subseteq Callers
    /\ lock.writer \in {None} \cup Callers
    /\ fetches \in [Callers -> 0..1]
    /\ fetchStarted \in {NoTime} \cup 0..MaxTime

\* ------------------------------------- AuthorizationContext: get, one at a time
\* AuthorizationContext::get is token_cache.get(query_kusto_identity_token()).
\* Here the gets on one AuthorizationContext follow one another (their
\* interleaving is the subject of the cache model above): a get looks the token
\* up and, on a miss, executes the management query once, validates the answer
\* and stores the token on success.
RESOURCE_REFRESH_PERIOD == MaxPeriod

\* the cache model at rest
CacheIdle ==
    /\ Fresh(0)
    /\ lock = Unlocked
    /\ pc = [c \in Callers |-> "idle"]
    /\ result = [c \in Callers |-> NoResult]
    /\ fetches = [c \in Callers |-> 0]
    /\ hist = [c \in Callers |-> NoHist]
    /\ seen = [c \in Callers |-> NoSeen]
    /\ fetchStarted = NoTime

TokenInit ==
    /\ now = 0
    /\ token_cache = CachedNew(Absent, RESOURCE_REFRESH_PERIOD, 0)
    /\ tokenBefore = token_cache
    /\ AuthIdle
    /\ CacheIdle
    /\ UriIdle
    /\ CloneIdle

\* the clock advances between two gets
AuthTick ==
    /\ authResult = NoAuthResult
    /\ now < MaxTime
    /\ now' = now + 1
    /\ UNCHANGED <<cacheVars, authVars, uriVars, cloneVars>>

\* get finds the token present and not expired: no query
AuthGetCached ==
    /\ authResult = NoAuthResult
    /\ TokenHit(token_cache, now)
    /\ authResult' = TokenOk(Unwrap(CachedGet(token_cache)))
    /\ queries' = 0
    /\ tokenBefore' = token_cache
    /\ UNCHANGED <<now, token_cache, response, cacheVars, uriVars, cloneVars>>

\* get misses: the callback executes the query once (execute_command answers
\* any of Responses) and validates the answer; Ok is stored by Cached::update,
\* an error returns through `?`
AuthGetFetch ==
    /\ authResult = NoAuthResult
    /\ ~TokenHit(token_cache, now)
    /\ \E answer \in Responses :
         LET r == query_kusto_identity_token(answer) IN
         /\ authResult' = r
         /\ token_cache' = IF r.tag = "Ok"
                           THEN Update(token_cache, Some(r.value.text), now)
                           ELSE AfterErr(token_cache)
         /\ response' = answer
    /\ queries' = 1
    /\ tokenBefore' = token_cache
    /\ UNCHANGED <<now, cacheVars, uriVars, cloneVars>>

\* the caller has taken the result
AuthReturn ==
    /\ authResult # NoAuthResult
    /\ authResult' = NoAuthResult
    /\ response' = NoResponse
    /\ queries' = 0
    /\ tokenBefore' = token_cache
    /\ UNCHANGED <<now, token_cache, cacheVars, uriVars, cloneVars>>

TokenNext ==
    \/ AuthTick
    \/ AuthGetCached
    \/ AuthGetFetch
    \/ AuthReturn

TokenSpec == TokenInit /\ [][TokenNext]_vars

TokenTypeOK ==
    /\ token_cache.inner \in {Absent} \cup {Some(str) : str \in Strings}
    /\ token_cache.last_updated \in 0..MaxTime
    /\ response \in {NoResponse} \cup Responses
    /\ queries \in 0..1
\* ------------------------------------------------ ResourceUri: try_from
\* try_from is a function of the URI: any URI of these parts is handed to it once.
UriInit ==
    /\ \E scheme \in Schemes, host \in Hosts, path \in Paths, query \in Queries, ok \in BOOLEAN :
          uri = Uri(scheme, host, path, query, ok)
    /\ parsed = NoParsed
    /\ now = 0
    /\ token_cache = CachedNew(Absent, RESOURCE_REFRESH_PERIOD, 0)
    /\ tokenBefore = token_cache
    /\ AuthIdle
    /\ CacheIdle
    /\ CloneIdle

TryFrom ==
    /\ parsed = NoParsed
    /\ parsed' = try_from(uri)
    /\ UNCHANGED <<uri, now, cacheVars, authVars, cloneVars>>

UriNext == TryFrom

UriSpec == UriInit /\ [][UriNext]_vars

UriTypeOK ==
    /\ uri.scheme \in Schemes
    /\ uri.host \in Hosts
    /\ uri.path \in Paths
    /\ uri.query \in Queries
    /\ parsed.tag \in {"None", "Ok", "Err"}

\* ------------------------------------------------------------- properties
Done(c)     == pc[c] = "done"
Returned(c) == Done(c) /\ result[c] # Cancelled
Fetching    == {c \in Callers : pc[c] = "fetching"}
ReadHolders == {c \in Callers : pc[c] = "read_held"}
WriteHolders == {c \in Callers : pc[c] \in {"write_held", "fetching"}}

\* the entry as the specification describes staleness: no value, or a full
\* refresh period elapsed since last_updated
Stale(cached, t) == cached.inner = None \/ t - cached.last_updated >= cached.refresh_period

\* a successful fetch has completed less than one refresh period before t
WithinPeriod(t) == lastOk.at # NoTime /\ t - lastOk.at < cache.refresh_period

\* C1: once a get has succeeded by running its fetch, every look-up (under the
\* read guard or under the write guard) made less than one refresh period after
\* that fetch completed ends the call with the fetched value and without a run
\* of the call's own callback: one fetch over the two calls.
C1_FreshLookupReturnsCached ==
    [][\A c \in Callers :
         (pc[c] \in {"read_held", "write_held"} /\ pc'[c] # pc[c] /\ WithinPeriod(now))
            => /\ pc'[c] = "done"
               /\ result'[c] = Ok(lastOk.val)
               /\ fetches'[c] = 0]_vars

\* C1 witness: one call fetched and succeeded, another returned the same value
\* under the read guard within the period without fetching
C1_Witness ==
    \E c, d \in Callers :
        /\ c # d /\ Returned(c) /\ Returned(d)
        /\ fetches[c] = 1 /\ result[c] = Ok(lastOk.val)
        /\ fetches[d] = 0 /\ result[d] = Ok(lastOk.val)
        /\ seen[d].recheck = "none"
        /\ ~hist[d].stale
        /\ cache.refresh_period > 0

\* C2: a get made when a full refresh period has elapsed since the last
\* successful fetch (or when none ever succeeded) does not return without a
\* fetch having run: it ran its own callback or another call's fetch succeeded
\* meanwhile, and a value it returns is never the one that was stored when it
\* was made; with no other call in flight at any time during it, it ran its
\* own callback exactly once.
C2_StaleCallFetches ==
    \A c \in Callers :
        (Returned(c) /\ hist[c].stale)
            => /\ fetches[c] = 1 \/ hist[c].refreshed
               /\ result[c].tag = "Ok" => result[c].val # hist[c].oldVal
               /\ hist[c].alone => fetches[c] = 1

\* C2 witness: a value had been fetched, the period elapsed, and a call made
\* alone after that fetched once
C2_Witness ==
    \E c \in Callers :
        /\ Returned(c) /\ hist[c].stale /\ hist[c].hadValue /\ hist[c].alone
        /\ fetches[c] = 1
        /\ cache.refresh_period > 0

\* C3: the step in which a call's callback fails leaves value and timestamp as
\* they were (for a call that ran alone: as they were when it began), the entry
\* is still stale, the call holds no guard any more, and no other call's result
\* changes; only a call whose own callback failed carries the error.
C3_FailedFetchLeavesCache ==
    [][\A c \in Callers :
         /\ (pc[c] = "fetching" /\ result'[c] = Err)
               => /\ cache' = cache
                  /\ Stale(cache', now')
                  /\ lock'.writer # c /\ c \notin lock'.readers
                  /\ lock'.writer = None
                  /\ \A d \in Callers \ {c} : result'[d] = result[d]
                  /\ hist[c].alone =>
                        /\ cache'.inner = seen[c].val
                        /\ seen[c].at # NoTime => cache'.last_updated = seen[c].at
         /\ result'[c] = Err => (fetches'[c] = 1 /\ (result[c] = Err \/ pc[c] = "fetching"))]_vars

\* C3 witness: a fetch failed while an earlier value was stored; the value is
\* still stored and the lock is free
C3_Witness ==
    \E c \in Callers :
        /\ Done(c) /\ result[c] = Err /\ hist[c].hadValue
        /\ cache.inner = lastOk.val /\ cache.inner # None
        /\ lock = Unlocked

\* C4: at most one callback runs at a time, no call holds the read guard while
\* a callback runs or while any call holds the write guard, and at most one
\* call holds the write guard.
C4_OneFetchNoReaders ==
    /\ Cardinality(Fetching) <= 1
    /\ Cardinality(WriteHolders) <= 1
    /\ WriteHolders # {} => ReadHolders = {}

\* C4 witness: a callback is running while another call is suspended on the lock
C4_Witness ==
    \E c, d \in Callers :
        /\ pc[c] = "fetching"
        /\ pc[d] \in {"read_wait", "write_wait"}

\* C4, the shared side: two calls hold the read guard at the same moment
C4_SharedReaders == Cardinality(ReadHolders) >= 2
\* a call that asked for the write guard when a successful fetch had already
\* completed, and has returned
WaitedAfterRefresh(c) == Returned(c) /\ seen[c].at # NoTime

C6_OneFetchPerWindow ==
    [][\A c \in Callers :
         /\ (pc[c] = "fetching" /\ pc'[c] = "done" /\ result'[c].tag = "Ok")
               => ~WithinPeriod(now)
         /\ (pc[c] # "done" /\ pc'[c] = "done" /\ result'[c].tag = "Ok")
               => /\ result'[c].val = lastOk'.val
                  /\ result'[c].val \in Values
                  /\ fetches'[c] = 0 => (lastOk' = lastOk /\ WithinPeriod(now))]_vars

\* C6 witness: two concurrent calls found the entry stale, one fetched, the other
\* queued on the write guard behind it and returned the stored value unfetched
C6_Witness ==
    \E c, d \in Callers :
        /\ c # d /\ Returned(c) /\ Returned(d)
        /\ hist[c].stale /\ hist[d].stale /\ ~hist[c].alone /\ ~hist[d].alone
        /\ fetches[c] = 1 /\ fetches[d] = 0
        /\ seen[d].recheck # "none"
        /\ result[c].tag = "Ok" /\ result[d] = result[c]

\* C7: no call runs its callback more than once, and a call made when the most
\* recently completed callback had failed, during which no fetch succeeded,
\* ran its own callback (exactly once) before returning.
C7_NoSuppressionAfterFailure ==
    \A c \in Callers :
        /\ fetches[c] <= 1
        /\ (Returned(c) /\ hist[c].afterFail /\ ~hist[c].refreshed) => fetches[c] = 1

\* C7 witness: after one call's fetch failed, a later call fetched and failed too,
\* although a value from before is still stored
C7_Witness ==
    \E c, d \in Callers :
        /\ c # d
        /\ Done(d) /\ result[d] = Err /\ fetches[d] = 1
        /\ Done(c) /\ result[c] = Err /\ fetches[c] = 1 /\ hist[c].afterFail

\* C8: the step that drops a call's future (at the read-lock await, the
\* write-lock await or the callback await) leaves value and timestamp unchanged
\* and leaves the call holding no guard: the write guard is free after a call
\* is dropped in its callback, and no finished call holds a guard.
C8_CancelReleasesAndKeeps ==
    [][\A c \in Callers :
         /\ (result[c] # Cancelled /\ result'[c] = Cancelled)
               => /\ pc[c] \in {"read_wait", "write_wait", "fetching"}
                  /\ cache' = cache
                  /\ pc[c] = "fetching" => lock' = Unlocked
                  /\ pc[c] # "fetching" => lock' = lock
         /\ pc'[c] = "done" => (lock'.writer # c /\ c \notin lock'.readers)]_vars

\* C8 witness: a call was dropped while its callback ran, and another call holds
\* the write guard afterwards
C8_Witness ==
    \E c, d \in Callers :
        /\ c # d
        /\ result[c] = Cancelled /\ fetches[c] = 1
        /\ pc[d] \in {"write_held", "fetching"} /\ lock.writer = d

\* C9: both look-ups of get miss exactly when the entry is stale (no value, or
\* elapsed >= refresh period, the boundary included); and a call made when no
\* fetch had ever succeeded, during which none succeeded, ran its callback.
C9_StaleIffAbsentOrElapsed ==
    [][\A c \in Callers :
         /\ (pc[c] = "read_held" /\ pc'[c] # "read_held")
               => (pc'[c] = "read_done" <=> Stale(cache, now))
         /\ (pc[c] = "write_held" /\ pc'[c] # "write_held")
               => (pc'[c] = "fetching" <=> Stale(cache, now))
         /\ (pc'[c] = "done" /\ result'[c] # Cancelled /\ ~hist'[c].hadValue /\ ~hist'[c].refreshed)
               => fetches'[c] = 1]_vars

\* C9 witness: the first call on a new cache with a positive period ran its
\* callback before one period had passed since construction
C9_Witness ==
    \E c \in Callers :
        /\ Returned(c) /\ ~hist[c].hadValue /\ hist[c].alone /\ fetches[c] = 1
        /\ cache.refresh_period > 0
        /\ now < cache.refresh_period
        /\ \A d \in Callers \ {c} : pc[d] = "idle"

\* C10: value and timestamp change only together, in the step a callback
\* returns Ok: that step stores the returned value with last_updated = the
\* time of the step (the completion of the fetch), after which, with a positive
\* period, the entry is not stale and reads as the new value; no other step
\* changes the entry.
C10_UpdateIsAtomicAndStampsNow ==
    [][/\ \A c \in Callers :
            (pc[c] = "fetching" /\ result'[c].tag = "Ok")
               => /\ cache' = CachedNew(result'[c].val, cache.refresh_period, now')
                  /\ cache.refresh_period > 0
                        => (~Stale(cache', now') /\ CachedGet(cache') = result'[c].val)
       /\ (\A c \in Callers : ~(pc[c] = "fetching" /\ result'[c].tag = "Ok")) => cache' = cache]_vars

\* C10 witness: a fetch that started at one instant completed at a later one,
\* and the entry carries the later instant
C10_Witness ==
    \E c \in Callers :
        /\ Returned(c) /\ fetches[c] = 1 /\ hist[c].slow
        /\ result[c] = Ok(cache.inner)
        /\ cache.last_updated = now /\ now > 0
        /\ cache.refresh_period > 0

\* ------------------------------------------ properties: AuthorizationContext
\* the last get executed the query and the query was answered with a result
Answered == queries = 1 /\ response.status = "Ok"

\* the answer holds one table with the AuthorizationContext column
OneTable(answer) == Len(answer.tables) = 1
HasColumn(table) == \E i \in 1..Len(table.columns) : table.columns[i] = AUTHORIZATION_CONTEXT
FirstColumn(table) ==
    CHOOSE i \in 1..Len(table.columns) :
        /\ table.columns[i] = AUTHORIZATION_CONTEXT
        /\ \A j \in 1..(i - 1) : table.columns[j] # AUTHORIZATION_CONTEXT

\* the answer has a token cell: one table, the column, one row, and that row
\* reaches the column
HasTokenCell(answer) ==
    /\ OneTable(answer)
    /\ HasColumn(answer.tables[1])
    /\ Len(answer.tables[1].rows) = 1
    /\ FirstColumn(answer.tables[1]) <= Len(answer.tables[1].rows[1])
TokenCell(answer) == answer.tables[1].rows[1][FirstColumn(answer.tables[1])]

\* a string that is empty or consists of whitespace only
Blank(str) == \A i \in DOMAIN str : str[i] = " "

\* C11: the token in the cache of an AuthorizationContext is absent or a string
\* that is neither empty nor all whitespace; and a get whose query was answered
\* with a string token cell that is empty or only whitespace returned
\* EmptyToken and left the cache (value and timestamp) as it found it.
C11_NoBlankTokenCached ==
    /\ IsSome(token_cache.inner) =>
          /\ Len(Unwrap(token_cache.inner)) > 0
          /\ \E i \in DOMAIN Unwrap(token_cache.inner) : Unwrap(token_cache.inner)[i] # " "
    /\ (/\ Answered
        /\ HasTokenCell(response)
        /\ TokenCell(response).json = "String"
        /\ Blank(TokenCell(response).text))
          => (authResult = EmptyToken /\ token_cache = tokenBefore)

\* C11 witness: a token was cached and had expired; the query answered a cell of
\* two spaces; EmptyToken was returned and the old token is still cached
C11_Witness ==
    /\ Answered
    /\ HasTokenCell(response)
    /\ TokenCell(response) = StringCell(<<" ", " ">>)
    /\ authResult = EmptyToken
    /\ IsSome(tokenBefore.inner)
    /\ token_cache = tokenBefore

\* C12: the answer of the query is validated in the order table count, column
\* presence, row count, cell is a string, token not blank, and the error of the
\* first check violated is returned: a table count other than one gives
\* ExpectedOneTable(count) whatever the tables hold, one table without the
\* column gives ColumnNotFound whatever its row count, and so on down to the
\* token, which is returned when every check passed.
C12_FirstViolatedCheck ==
    Answered =>
       LET n == Len(response.tables)
           table == response.tables[1]
           m == Len(table.rows)
       IN  /\ n # 1 => authResult = ExpectedOneTable(n)
           /\ (n = 1 /\ ~HasColumn(table)) => authResult = ColumnNotFound
           /\ (n = 1 /\ HasColumn(table) /\ m # 1) => authResult = ExpectedOneRow(m)
           /\ HasTokenCell(response) =>
                 LET cell == TokenCell(response)
                 IN  /\ cell.json # "String" => authResult = InvalidJSONResponse(cell)
                     /\ (cell.json = "String" /\ Blank(cell.text)) => authResult = EmptyToken
                     /\ (cell.json = "String" /\ ~Blank(cell.text)) => authResult = TokenOk(cell.text)

\* C12 witness: one table that lacks the column and has two rows gave ColumnNotFound
C12_Witness ==
    /\ Answered
    /\ OneTable(response)
    /\ ~HasColumn(response.tables[1])
    /\ Len(response.tables[1].rows) = 2
    /\ authResult = ColumnNotFound

\* C12, the table count: two tables, each of them a valid token table, gave
\* ExpectedOneTable(2)
C12_TwoValidTables ==
    /\ Answered
    /\ Len(response.tables) = 2
    /\ ValidateTable(response.tables[1]).tag = "Ok"
    /\ authResult = ExpectedOneTable(2)

\* C13: a get executes the management query at most once, and exactly once when
\* it found the token absent or expired; when the execution failed the get
\* returned the KustoError and left the token cache (value and timestamp) as it
\* found it; only a failed execution gives KustoError.
C13_QueryFailureNoRetry ==
    /\ queries <= 1
    /\ authResult # NoAuthResult => (queries = 1 <=> ~TokenHit(tokenBefore, now))
    /\ (queries = 1 /\ response = QueryFailed)
          => (authResult = KustoError /\ token_cache = tokenBefore)
    /\ authResult = KustoError => (queries = 1 /\ response = QueryFailed)

\* C13 witness: the query failed while an expired token was cached; the get
\* returned KustoError and the token is still cached
C13_Witness ==
    /\ queries = 1
    /\ response = QueryFailed
    /\ authResult = KustoError
    /\ IsSome(token_cache.inner)
    /\ token_cache = tokenBefore

\* --------------------------------------------------- properties: ResourceUri
\* try_from has returned
Parsed == parsed # NoParsed

\* the rules of a resource URI, read off the URI as written
HttpsScheme  == uri.scheme = "https"
DomainHost   == uri.host.kind = "Domain"
DottedHost   == \E i \in DOMAIN uri.host.text : uri.host.text[i] = "."
OneSegment   ==
    /\ Len(uri.path) >= 2
    /\ uri.path[1] = "/"
    /\ \A i \in 2..Len(uri.path) : uri.path[i] # "/"
QueryPresent == Len(uri.query) = 1

\* C14 as stated: the error is that of the first rule violated in the order
\* scheme, host kind, path, query, account name.
C14_AsStated ==
    Parsed =>
       /\ ~HttpsScheme => parsed = InvalidScheme(uri.scheme)
       /\ (HttpsScheme /\ ~DomainHost) => parsed = InvalidHost
       /\ (HttpsScheme /\ DomainHost /\ ~OneSegment) => parsed = MissingObjectName
       /\ (HttpsScheme /\ DomainHost /\ OneSegment /\ ~QueryPresent) => parsed = MissingSasToken
       /\ (HttpsScheme /\ DomainHost /\ OneSegment /\ QueryPresent /\ uri.sas_parses /\ ~DottedHost)
             => parsed = MissingAccountName

\* C14 amended: the error is that of the first rule violated in the order
\* scheme, host kind, account name, path, query: a host without a "." gives
\* MissingAccountName whatever the path and the query are, and a URI that
\* passes all five rules gives a descriptor or the error of the SAS parser.
C14_AccountNameBeforePath ==
    Parsed =>
       /\ ~HttpsScheme => parsed = InvalidScheme(uri.scheme)
       /\ (HttpsScheme /\ ~DomainHost) => parsed = InvalidHost
       /\ (HttpsScheme /\ DomainHost /\ ~DottedHost) => parsed = MissingAccountName
       /\ (HttpsScheme /\ DomainHost /\ DottedHost /\ ~OneSegment) => parsed = MissingObjectName
       /\ (HttpsScheme /\ DomainHost /\ DottedHost /\ OneSegment /\ ~QueryPresent)
             => parsed = MissingSasToken
       /\ (HttpsScheme /\ DomainHost /\ DottedHost /\ OneSegment /\ QueryPresent)
             => parsed.kind \in {"ResourceUri", "AzureError"}

\* C14 witness: a host without "." and a path of two segments, no query: the
\* account name is what is reported missing
C14_Witness ==
    /\ Parsed
    /\ HttpsScheme /\ DomainHost /\ ~DottedHost
    /\ uri.path = <<"/", "c", "/", "c">>
    /\ ~QueryPresent
    /\ parsed = MissingAccountName

\* C15: a descriptor returned has service_uri = "https://" followed by the host,
\* object_name = the path without its leading "/" (one segment, not empty),
\* account_name = the part of the host before its first ".", and as credential
\* the name/value pairs of the query.
C15_DescriptorFields ==
    parsed.tag = "Ok" =>
       /\ parsed.service_uri = <<"https://">> \o uri.host.text
       /\ <<"/">> \o parsed.object_name = uri.path
       /\ parsed.object_name # <<>>
       /\ \A i \in DOMAIN parsed.object_name : parsed.object_name[i] # "/"
       /\ LET n == Len(parsed.account_name)
          IN  /\ n < Len(uri.host.text)
              /\ uri.host.text[n + 1] = "."
              /\ parsed.account_name = SubSeq(uri.host.text, 1, n)
              /\ \A i \in 1..n : uri.host.text[i] # "."
       /\ QueryPresent
       /\ parsed.sas_token = QueryPairs(Unwrap(uri.query))
       /\ \A i \in DOMAIN parsed.sas_token :
             /\ \A j \in DOMAIN parsed.sas_token[i][1] :
                   parsed.sas_token[i][1][j] \notin {"=", "&"}
             /\ \A j \in DOMAIN parsed.sas_token[i][2] : parsed.sas_token[i][2][j] # "&"

\* C15 witness: https://a.a/c?k=k gives service_uri https://a.a, object c,
\* account a, credential k = k
C15_Witness ==
    /\ uri.host = Domain(<<"a", ".", "a">>)
    /\ uri.path = <<"/", "c">>
    /\ uri.query = Some(<<"k", "=", "k">>)
    /\ parsed = ResourceUri(<<"https://", "a", ".", "a">>, <<"c">>, <<"a">>,
                            << << <<"k">>, <<"k">> >> >>)

\* C16: a scheme other than https gives InvalidScheme with that scheme, whatever
\* host, path and query are.
C16_InvalidScheme ==
    (Parsed /\ uri.scheme # "https") => parsed = InvalidScheme(uri.scheme)

\* C16 witness: an http URI that is valid otherwise
C16_Witness ==
    /\ uri.scheme = "http"
    /\ DomainHost /\ DottedHost /\ OneSegment /\ QueryPresent /\ uri.sas_parses
    /\ parsed = InvalidScheme("http")

\* C17: an https URI whose host is an IPv4 or IPv6 literal gives InvalidHost,
\* whatever path and query are.
C17_InvalidHost ==
    (Parsed /\ HttpsScheme /\ uri.host.kind \in {"Ipv4", "Ipv6"}) => parsed = InvalidHost

\* C17 witness: an IPv4 literal (which has a ".") with a valid path and query
C17_Witness ==
    /\ HttpsScheme
    /\ uri.host = Ipv4
    /\ OneSegment /\ QueryPresent /\ uri.sas_parses
    /\ parsed = InvalidHost

\* C18: an https URI with a dotted domain host gives MissingObjectName whenever
\* its path is not one non-empty segment: empty, "/", two or more segments, or
\* a segment followed by "/".
C18_MissingObjectName ==
    (Parsed /\ HttpsScheme /\ DomainHost /\ DottedHost /\ ~OneSegment)
        => parsed = MissingObjectName

\* C18 witness: one segment followed by "/", with a valid query
C18_Witness ==
    /\ HttpsScheme /\ DomainHost /\ DottedHost
    /\ uri.path = <<"/", "c", "/">>
    /\ QueryPresent /\ uri.sas_parses
    /\ parsed = MissingObjectName

\* C18, the other paths named: empty, "/", two segments
C18_OtherPaths ==
    /\ HttpsScheme /\ DomainHost /\ DottedHost
    /\ uri.path \in {<<>>, <<"/">>, <<"/", "c", "/", "c">>}
    /\ parsed = MissingObjectName

C19_EmptyQuery ==
    /\ HttpsScheme /\ DomainHost /\ DottedHost /\ OneSegment
    /\ uri.query = Some(<<>>)
    /\ Parsed
    /\ parsed # MissingSasToken

\* C20: an https URI whose domain host has no "." gives MissingAccountName, with
\* a valid path and query as with any other; and no descriptor carries the
\* whole host as its account name.
C20_MissingAccountName ==
    /\ (Parsed /\ HttpsScheme /\ DomainHost /\ ~DottedHost) => parsed = MissingAccountName
    /\ parsed.tag = "Ok" => (DottedHost /\ parsed.account_name # uri.host.text)

\* C20 witness: host "aa", one path segment, a query the SAS parser accepts
C20_Witness ==
    /\ HttpsScheme
    /\ uri.host = Domain(<<"a", "a">>)
    /\ OneSegment /\ QueryPresent /\ uri.sas_parses
    /\ parsed = MissingAccountName

\* ------------------------------------------------ properties: cache, continued
\* C21: value and timestamp of the entry change only in the step in which the
\* callback of a call returns Ok, and that call then holds the write guard with
\* no read guard held by anyone; the look-up under the read guard and the
\* re-check under the write guard leave the entry as it is, whatever they find.
C21_MutatedOnlyUnderWriteGuard ==
    [][/\ cache' # cache =>
             \E c \in Callers :
                 /\ pc[c] = "fetching" /\ pc'[c] = "done"
                 /\ result'[c].tag = "Ok"
                 /\ lock = [readers |-> {}, writer |-> c]
       /\ \A c \in Callers :
             (pc[c] \in {"read_held", "write_held"} /\ pc'[c] # pc[c]) => cache' = cache]_vars

\* C21 witness: one call stored a value; another went through the look-up under
\* the read guard and the re-check under the write guard, and the entry is as
\* the first call left it
C21_Witness ==
    \E c, d \in Callers :
        /\ c # d
        /\ Returned(c) /\ fetches[c] = 1 /\ result[c] = Ok(cache.inner)
        /\ Done(d) /\ fetches[d] = 0 /\ seen[d].recheck # "none"
        /\ cache.last_updated = lastOk.at
        /\ cache.inner = lastOk.val

\* ------------------------------- properties: AuthorizationContext, continued
\* C22: when the answer holds exactly one table, that table has the
\* AuthorizationContext column and exactly one row, the result is the token,
\* EmptyToken or InvalidJSONResponse with the cell, and never ColumnNotFound,
\* ExpectedOneTable or ExpectedOneRow, also when the row has fewer cells than
\* the column's index.
C22_AsStated ==
    (/\ Answered
     /\ OneTable(response)
     /\ HasColumn(response.tables[1])
     /\ Len(response.tables[1].rows) = 1)
        => authResult.kind \in {"Token", "EmptyToken", "InvalidJSONResponse"}

\* C24: a call that ends with Ok(v) either ends in the step its own callback
\* returned v (v is then the value stored, stamped with the time of that step),
\* or ends in a look-up and v is the value stored by the most recent successful
\* fetch, which completed less than one refresh period before that look-up; v
\* is never the absent value and never a value that no fetch produced.
C24_OkValueProvenance ==
    [][\A c \in Callers :
         (pc[c] # "done" /\ pc'[c] = "done" /\ result'[c].tag = "Ok")
            => /\ result'[c].val # None
               /\ result'[c].val \in 1..lastOk'.val
               /\ \/ /\ pc[c] = "fetching"
                     /\ fetches[c] = 1
                     /\ lastOk' = [val |-> result'[c].val, at |-> now]
                     /\ lastOk'.val = lastOk.val + 1
                  \/ /\ pc[c] \in {"read_held", "write_held"}
                     /\ fetches[c] = 0
                     /\ lastOk' = lastOk
                     /\ result'[c].val = lastOk.val
                     /\ lastOk.at # NoTime
                     /\ now - lastOk.at < cache.refresh_period]_vars

\* C24 witness: a call served by a look-up the value an earlier fetch had
\* stored less than one refresh period before, no other call being made
C24_Witness ==
    \E c \in Callers :
        /\ Returned(c) /\ fetches[c] = 0
        /\ result[c] = Ok(lastOk.val)
        /\ lastOk.at # NoTime
        /\ now - lastOk.at < cache.refresh_period
        /\ \A d \in Callers \ {c} : pc[d] = "idle"

\* ------------------------------------------------------- the cache, scheduled
\* The RwLock is fair (a request that can be granted again and again is
\* granted), the code between two await points runs, and a callback that was
\* started terminates, with Ok or with Err.  Nothing obliges a caller to call
\* get, to drop its future, or the clock to advance.
Fairness ==
    \A c \in Callers :
        /\ SF_vars(ReadLock(c))
        /\ SF_vars(WriteLock(c))
        /\ WF_vars(ReadCheck(c))
        /\ WF_vars(WriteRequest(c))
        /\ WF_vars(WriteCheck(c))
        /\ WF_vars(FetchOk(c) \/ FetchErr(c))

FairSpec == Init /\ [][Next]_vars /\ Fairness

\* C23: with a fair lock and terminating callbacks every call of get that was
\* made comes to its end; and a call that has left the look-up under the read
\* guard, or waits for the write guard, holds no guard.
C23_EveryGetReturns ==
    /\ \A c \in Callers : Active(c) ~> Done(c)
    /\ [](\A c \in Callers :
             pc[c] \in {"read_done", "write_wait"} => (c \notin lock.readers /\ lock.writer # c))

\* C23 witness: two calls contended: the first fetched and failed while the
\* second waited for the write guard, then the second fetched; both returned
C23_Witness ==
    \E c, d \in Callers :
        /\ c # d
        /\ Returned(c) /\ fetches[c] = 1 /\ result[c] = Err
        /\ Returned(d) /\ fetches[d] = 1 /\ ~hist[d].alone
        /\ seen[d].recheck # "none"
        /\ lock = Unlocked

\* ------------------------------------------- specification of the clones
\* Values of ThreadSafeCachedValue are made by new() and by clone(), and one
\* get is made through each.  A get takes the allocation's lock as in get
\* above; its look-ups and its move from the shared to the exclusive guard
\* are taken in one step here, the fetch under the exclusive guard in a step
\* of its own.
Made(h) == handles[h] # None

\* the next value to be made, and the next allocation to be made
NextHandle   == CHOOSE h \in HandleIds : ~Made(h) /\ \A g \in 1..(h - 1) : Made(g)
NextInstance == Cardinality({handles[h] : h \in {g \in HandleIds : Made(g)}}) + 1

\* Arc::clone: the allocation a clone points to
CopiedAllocation(i) == NextInstance
ArcClone(i) == i

CloneInit ==
    /\ now = 0
    /\ CacheIdle
    /\ AuthIdle
    /\ token_cache = CachedNew(Absent, 0, 0)
    /\ tokenBefore = token_cache
    /\ UriIdle
    /\ CloneIdle

\* ThreadSafeCachedValue::new(refresh_period)
New ==
    /\ \E h \in HandleIds : ~Made(h)
    /\ LET h == NextHandle
           i == NextInstance
       IN  /\ instances' = [instances EXCEPT ![i] =
                               [cache |-> CachedNew(None, RESOURCE_REFRESH_PERIOD, now), lock |-> Unlocked]]
           /\ handles' = [handles EXCEPT ![h] = i]
           /\ hpc' = [hpc EXCEPT ![h] = "idle"]
           /\ root' = [root EXCEPT ![h] = h]
    /\ UNCHANGED <<now, hres, stored, cacheVars, authVars, uriVars>>

\* ThreadSafeCachedValue::clone of the value h
Clone(h) ==
    /\ Made(h)
    /\ \E g \in HandleIds : ~Made(g)
    /\ LET g == NextHandle
           i == ArcClone(handles[h])
       IN  /\ instances' = [instances EXCEPT ![i] = instances[handles[h]]]
           /\ handles' = [handles EXCEPT ![g] = i]
           /\ hpc' = [hpc EXCEPT ![g] = "idle"]
           /\ root' = [root EXCEPT ![g] = root[h]]
    /\ UNCHANGED <<now, hres, stored, cacheVars, authVars, uriVars>>

\* get through h: a look-up under the shared guard finds a live value
CloneGetHit(h) ==
    /\ Made(h) /\ hpc[h] = "idle"
    /\ LET inst == instances[handles[h]]
       IN  /\ CanRead(inst.lock)
           /\ Hit(inst.cache, now)
           /\ hres' = [hres EXCEPT ![h] = Ok(CachedGet(inst.cache))]
    /\ hpc' = [hpc EXCEPT ![h] = "hit"]
    /\ UNCHANGED <<now, instances, handles, root, stored, cacheVars, authVars, uriVars>>

\* get through h: both look-ups miss, the fetch starts under the exclusive guard
CloneGetMiss(h) ==
    /\ Made(h) /\ hpc[h] = "idle"
    /\ LET inst == instances[handles[h]]
       IN  /\ CanRead(inst.lock)
           /\ CanWrite(inst.lock)
           /\ ~Hit(inst.cache, now)
           /\ instances' = [instances EXCEPT ![handles[h]].lock.writer = h]
    /\ hpc' = [hpc EXCEPT ![h] = "fetching"]
    /\ UNCHANGED <<now, handles, hres, root, stored, cacheVars, authVars, uriVars>>

\* get through h: the fetch ends, the guard is dropped
CloneFetchOk(h) ==
    /\ hpc[h] = "fetching"
    /\ LET inst == instances[handles[h]]
           v    == stored[root[h]].val + 1
       IN  /\ instances' = [instances EXCEPT ![handles[h]] =
                               [cache |-> Update(inst.cache, v, now), lock |-> DropGuard(inst.lock, h)]]
           /\ hres' = [hres EXCEPT ![h] = Ok(v)]
           /\ stored' = [stored EXCEPT ![root[h]] = [val |-> v, at |-> now]]
    /\ hpc' = [hpc EXCEPT ![h] = "fetched"]
    /\ UNCHANGED <<now, handles, root, cacheVars, authVars, uriVars>>

CloneFetchErr(h) ==
    /\ hpc[h] = "fetching"
    /\ LET inst == instances[handles[h]]
       IN  instances' = [instances EXCEPT ![handles[h]] =
                            [cache |-> AfterErr(inst.cache), lock |-> DropGuard(inst.lock, h)]]
    /\ hres' = [hres EXCEPT ![h] = Err]
    /\ hpc' = [hpc EXCEPT ![h] = "failed"]
    /\ UNCHANGED <<now, handles, root, stored, cacheVars, authVars, uriVars>>

CloneTick ==
    /\ now < MaxTime
    /\ now' = now + 1
    /\ UNCHANGED <<cacheVars, authVars, uriVars, cloneVars>>

CloneNext ==
    \/ New
    \/ \E h \in HandleIds : Clone(h)
    \/ \E h \in HandleIds : CloneGetHit(h)
    \/ \E h \in HandleIds : CloneGetMiss(h)
    \/ \E h \in HandleIds : CloneFetchOk(h)
    \/ \E h \in HandleIds : CloneFetchErr(h)
    \/ CloneTick

CloneSpec == CloneInit /\ [][CloneNext]_vars

CloneTypeOK ==
    /\ now \in 0..MaxTime
    /\ handles \in [HandleIds -> {None} \cup HandleIds]
    /\ root \in [HandleIds -> {None} \cup HandleIds]
    /\ hpc \in [HandleIds -> {"none", "idle", "fetching", "hit", "fetched", "failed"}]
    /\ \A h \in HandleIds : hres[h] \in {NoResult, Err} \cup {Ok(v) : v \in HandleIds}
    /\ \A i \in HandleIds :
          /\ instances[i].cache.inner \in {None} \cup HandleIds
          /\ instances[i].lock.readers = {}
          /\ instances[i].lock.writer \in {None} \cup HandleIds
    /\ \A h \in HandleIds : stored[h].val \in {None} \cup HandleIds

\* ------------------------------------------------------------------ C25
SameFamily(h, g) == Made(h) /\ Made(g) /\ root[h] = root[g]
FamilyFresh(r) == stored[r].at # NoTime /\ now - stored[r].at < RESOURCE_REFRESH_PERIOD

\* C25: clones of a ThreadSafeCachedValue share one entry and one lock, and
\* values made by separate calls of new() share nothing: two values point to
\* the same allocation exactly when one descends from the other's new(); a
\* get through any clone made less than a refresh period after a successful
\* fetch through a clone of the same family returns that fetch's value and
\* fetches nothing; and an allocation's value, timestamp and lock change only
\* in a step of a value of its own family.
C25_ClonesShareOthersDoNot ==
    [][/\ \A h, g \in HandleIds :
             (handles'[h] # None /\ handles'[g] # None)
                => ((root'[h] = root'[g]) <=> (handles'[h] = handles'[g]))
       /\ \A g \in HandleIds :
             (hpc[g] = "idle" /\ hpc'[g] # "idle" /\ FamilyFresh(root[g]))
                => (hpc'[g] = "hit" /\ hres'[g] = Ok(stored[root[g]].val))
       /\ \A j \in HandleIds :
             instances'[j] # instances[j]
                => \E h \in HandleIds :
                      /\ handles'[h] = j /\ hpc'[h] # hpc[h]
                      /\ \A g \in HandleIds : (Made(g) /\ root[g] # root'[h]) => handles[g] # j]_vars

\* a fetch through one value was served to a clone of it without a fetch,
\* while a separately made value, its entry still empty, holds its own lock
C25_Witness ==
    \E h, g, k \in HandleIds :
        /\ h # g /\ SameFamily(h, g) /\ Made(k) /\ root[k] # root[h]
        /\ hpc[h] = "fetched" /\ hpc[g] = "hit" /\ hres[g] = hres[h]
        /\ hpc[k] = "fetching"
        /\ instances[handles[k]].lock.writer = k
        /\ instances[handles[k]].cache.inner = None
        /\ instances[handles[h]].lock = Unlocked

====
